---------------------------- MODULE Spec2Model ----------------------------
(***************************************************************************)
(* A model of wc2.c: the word-count program whose core is a table-driven   *)
(* state machine (DFA) that classifies bytes into lines, words and         *)
(* characters and validates UTF-8 on the way.                              *)
(*                                                                         *)
(* The model has the global transition table and its pointer form, the     *)
(* table builder, the three chunk processors, and a driver that calls the  *)
(* chunk processors on consecutive pieces of a buffer with the state       *)
(* threaded through, the way parse_file does (Spec), and main's loop over   *)
(* the files and stdin, with parse_file reading a buffer at a time         *)
(* (MainSpec), and main from read_command_line on its arguments (CmdSpec). *)
(***************************************************************************)
EXTENDS Integers, Sequences, FiniteSets, TLC

VARIABLES
    locale,         \* what setlocale(LC_ALL, "") selected: the answers of isspace/iswspace
    is_multibyte,   \* cfg.is_counting_chars, the argument of compile_utf8_statemachine
    table,          \* unsigned char table[256][256], rows 0..STATE_MAX-1
    table_p,        \* void *table_p[256][256], as byte offsets from (char*)table_p
    pc,             \* where the run is: "args", "start", "ready", "chunks",
                    \* "done" (return 0), "exit0" and "exit1" (exit in read_command_line)
    buf,            \* the bytes handed to the chunk processors
    pos,            \* how many bytes of buf have been processed
    inout_state,    \* the caller's state, carried between chunks
    x,              \* the results of the last chunk processor call
    results,        \* the field-wise sum of the results of all calls so far
    last,           \* the last call: inbound state, offset and length in buf, results
    prev,           \* the call before the last
    cfg,            \* struct config: file_count, is_stdin, is_pointer_arithmetic
    argi,           \* main's i: its position among the files of the command line
    totals,         \* main's totals
    printed,        \* the lines written so far, each with the bytes of its stream
    argv            \* the arguments of the command line, argv[1] onwards

vars == <<locale, is_multibyte, table, table_p, pc, buf, pos, inout_state,
          x, results, last, prev, cfg, argi, totals, printed, argv>>

\* what belongs to main's loop over the files
mainvars == <<cfg, argi, totals, printed, argv>>

---------------------------------------------------------------------------
(* The states: enum at wc2.c:83-115 (offsets inside a Unicode block) and   *)
(* wc2.c:117-125 (the four base states and the two blocks).                *)

DUO2_xx == 0
DUO2_C2 == 1
TRI2_E0 == 2
TRI2_E1 == 3
TRI2_E2 == 4
TRI2_E3 == 5
TRI2_ED == 6
TRI2_EE == 7
TRI2_xx == 8
TRI3_E0_xx == 9
TRI3_E1_xx == 10
TRI3_E1_9a == 11
TRI3_E2_80 == 12
TRI3_E2_81 == 13
TRI3_E2_xx == 14
TRI3_E3_80 == 15
TRI3_E3_81 == 16
TRI3_E3_xx == 17
TRI3_Ed_xx == 18
TRI3_Ee_xx == 19
TRI3_xx_xx == 20
QUAD2_xx == 21
QUAD2_F0 == 22
QUAD2_F4 == 23
QUAD3_xx_xx == 24
QUAD3_F0_xx == 25
QUAD3_F4_xx == 26
QUAD4_xx_xx_xx == 27
QUAD4_F0_xx_xx == 28
QUAD4_F4_xx_xx == 29
ILLEGAL == 30

WASSPACE == 0
NEWLINE == 1
NEWWORD == 2
WASWORD == 3
USPACE == 4
UWORD == USPACE + ILLEGAL + 1
STATE_MAX == UWORD + ILLEGAL + 1

States == 0 .. (STATE_MAX - 1)
Byte == 0 .. 255

\* sizeof(void*) of the build (LP64), the stride of PSTATE and compile_pointers
SizeofVoidP == 8

\* a null pointer, where table_p holds offsets from its own start
NullP == -1

---------------------------------------------------------------------------
(* The C library, as far as the program asks it.                           *)

\* The standard white-space characters: \t \n \v \f \r and space.
StdSpace == {9, 10, 11, 12, 13, 32}

\* isspace(c) after setlocale(LC_ALL, ""): the standard white-space plus the
\* locale's own single-byte spaces.
isspace(c) == c \in StdSpace \cup locale.space

\* iswspace(cp) after setlocale(LC_ALL, "").
iswspace(cp) == cp \in locale.wspace

\* a & b on non-negative integers
RECURSIVE BitAnd(_, _)
BitAnd(a, b) ==
    IF a = 0 \/ b = 0 THEN 0
    ELSE (IF a % 2 = 1 /\ b % 2 = 1 THEN 1 ELSE 0) + 2 * BitAnd(a \div 2, b \div 2)

---------------------------------------------------------------------------
(* The table builder.                                                      *)

\* build_basic without the "c < 0xC2" test: C0 and C1 start a two-byte sequence
build_basic_overlong(default_state, ubase) ==
    [c \in Byte |->
        IF BitAnd(c, 128) # 0 THEN
            IF BitAnd(c, 224) = 192 THEN
                IF c = 194 THEN ubase + DUO2_C2 ELSE ubase + DUO2_xx
            ELSE IF BitAnd(c, 240) = 224 THEN
                CASE c = 224 -> ubase + TRI2_E0
                  [] c = 225 -> ubase + TRI2_E1
                  [] c = 226 -> ubase + TRI2_E2
                  [] c = 227 -> ubase + TRI2_E3
                  [] c = 237 -> ubase + TRI2_ED
                  [] c = 238 -> ubase + TRI2_EE
                  [] OTHER   -> ubase + TRI2_xx
            ELSE IF BitAnd(c, 248) = 240 THEN
                IF c >= 245 THEN ubase + ILLEGAL
                ELSE IF c = 240 THEN ubase + QUAD2_F0
                ELSE IF c = 244 THEN ubase + QUAD2_F4
                ELSE ubase + QUAD2_xx
            ELSE ubase + ILLEGAL
        ELSE IF c = 10 THEN NEWLINE
        ELSE IF isspace(c) THEN WASSPACE
        ELSE default_state]

\* build_basic with a stray continuation byte 80..BF taken as an ordinary
\* character of the context instead of going to ILLEGAL
build_basic_recover(default_state, ubase) ==
    [c \in Byte |->
        IF BitAnd(c, 128) # 0 THEN
            IF BitAnd(c, 224) = 192 THEN
                IF c < 194 THEN ubase + ILLEGAL
                ELSE IF c = 194 THEN ubase + DUO2_C2
                ELSE ubase + DUO2_xx
            ELSE IF BitAnd(c, 240) = 224 THEN
                CASE c = 224 -> ubase + TRI2_E0
                  [] c = 225 -> ubase + TRI2_E1
                  [] c = 226 -> ubase + TRI2_E2
                  [] c = 227 -> ubase + TRI2_E3
                  [] c = 237 -> ubase + TRI2_ED
                  [] c = 238 -> ubase + TRI2_EE
                  [] OTHER   -> ubase + TRI2_xx
            ELSE IF BitAnd(c, 248) = 240 THEN
                IF c >= 245 THEN ubase + ILLEGAL
                ELSE IF c = 240 THEN ubase + QUAD2_F0
                ELSE IF c = 244 THEN ubase + QUAD2_F4
                ELSE ubase + QUAD2_xx
            ELSE IF c >= 192 THEN ubase + ILLEGAL ELSE default_state
        ELSE IF c = 10 THEN NEWLINE
        ELSE IF isspace(c) THEN WASSPACE
        ELSE default_state]

\* build_basic fills one row: the row it writes is the value here.
build_basic(default_state, ubase) ==
    [c \in Byte |->
        IF BitAnd(c, 128) # 0 THEN
            IF BitAnd(c, 224) = 192 THEN
                \* 110x xxxx
                IF c < 194 THEN ubase + ILLEGAL
                ELSE IF c = 194 THEN ubase + DUO2_C2
                ELSE ubase + DUO2_xx
            ELSE IF BitAnd(c, 240) = 224 THEN
                \* 1110 xxxx
                CASE c = 224 -> ubase + TRI2_E0
                  [] c = 225 -> ubase + TRI2_E1
                  [] c = 226 -> ubase + TRI2_E2
                  [] c = 227 -> ubase + TRI2_E3
                  [] c = 237 -> ubase + TRI2_ED
                  [] c = 238 -> ubase + TRI2_EE
                  [] OTHER   -> ubase + TRI2_xx
            ELSE IF BitAnd(c, 248) = 240 THEN
                IF c >= 245 THEN ubase + ILLEGAL
                ELSE IF c = 240 THEN ubase + QUAD2_F0
                ELSE IF c = 244 THEN ubase + QUAD2_F4
                ELSE ubase + QUAD2_xx
            ELSE ubase + ILLEGAL
        ELSE IF c = 10 THEN NEWLINE
        ELSE IF isspace(c) THEN WASSPACE
        ELSE default_state]

build_WASSPACE == build_basic(NEWWORD, USPACE)

build_WASWORD == build_basic(WASWORD, UWORD)

\* build_urow with every byte that is not an accepted continuation byte, the
\* ASCII bytes included, sent to ILLEGAL
build_urow_strict(t, ubase, next) ==
    LET default_state == t[ubase + ILLEGAL][0]
        nxt == IF next = 0 THEN default_state ELSE ubase + next
    IN  [i \in Byte |->
            IF i >= 128 /\ i < 192 THEN nxt ELSE ubase + ILLEGAL]

\* build_urow with every ASCII byte taken as a word character of the context
build_urow_asciiword(t, ubase, next) ==
    LET default_state == t[ubase + ILLEGAL][0]
        nxt == IF next = 0 THEN default_state ELSE ubase + next
    IN  [i \in Byte |->
            IF i >= 192 THEN ubase + ILLEGAL
            ELSE IF i >= 128 THEN nxt
            ELSE default_state]

\* build_urow without its second loop: a lead byte inside a sequence is taken
\* as the ILLEGAL row takes it, as the start of a new sequence
build_urow_noleads(t, ubase, next) ==
    LET default_state == t[ubase + ILLEGAL][0]
        nxt == IF next = 0 THEN default_state ELSE ubase + next
    IN  [i \in Byte |->
            IF i >= 128 /\ i < 192 THEN nxt
            ELSE t[ubase + ILLEGAL][i]]

\* build_urow with its continuation loop stopping one byte early (i<0xBF)
build_urow_short(t, ubase, next) ==
    LET default_state == t[ubase + ILLEGAL][0]
        nxt == IF next = 0 THEN default_state ELSE ubase + next
    IN  [i \in Byte |->
            IF i >= 192 THEN ubase + ILLEGAL
            ELSE IF i >= 128 /\ i < 191 THEN nxt
            ELSE t[ubase + ILLEGAL][i]]

\* build_urow(ubase, id, next) writes row ubase+id of the global table and reads
\* only row ubase+ILLEGAL: with t the table before the call, the value is the
\* row it writes.
build_urow(t, ubase, next) ==
    LET default_state == t[ubase + ILLEGAL][0]
        nxt == IF next = 0 THEN default_state ELSE ubase + next
    IN  [i \in Byte |->
            IF i >= 192 THEN ubase + ILLEGAL
            ELSE IF i >= 128 THEN nxt
            ELSE t[ubase + ILLEGAL][i]]

\* for (i=lo; i<hi; i++) table[..][i] = v, on the row as it was
MarkRange(row, lo, hi, v) ==
    [i \in Byte |-> IF lo <= i /\ i < hi THEN v ELSE row[i]]

\* The build_urow calls of build_unicode (wc2.c:232-257 and 269-279). No call
\* writes the row the calls read, so each reads it as build_basic left it in t.
UnicodeRows(t, ubase) ==
    [t EXCEPT
        ![ubase + DUO2_xx] = build_urow(t, ubase, 0),
        ![ubase + DUO2_C2] = build_urow(t, ubase, 0),
        ![ubase + TRI2_E0] = build_urow(t, ubase, TRI3_E0_xx),
        ![ubase + TRI2_E1] = build_urow(t, ubase, TRI3_E1_xx),
        ![ubase + TRI2_E2] = build_urow(t, ubase, TRI3_E2_xx),
        ![ubase + TRI2_E3] = build_urow(t, ubase, TRI3_E3_xx),
        ![ubase + TRI2_ED] = build_urow(t, ubase, TRI3_Ed_xx),
        ![ubase + TRI2_EE] = build_urow(t, ubase, TRI3_Ee_xx),
        ![ubase + TRI2_xx] = build_urow(t, ubase, TRI3_xx_xx),
        ![ubase + TRI3_E0_xx] = build_urow(t, ubase, 0),
        ![ubase + TRI3_E1_xx] = build_urow(t, ubase, 0),
        ![ubase + TRI3_E1_9a] = build_urow(t, ubase, 0),
        ![ubase + TRI3_E2_80] = build_urow(t, ubase, 0),
        ![ubase + TRI3_E2_81] = build_urow(t, ubase, 0),
        ![ubase + TRI3_E2_xx] = build_urow(t, ubase, 0),
        ![ubase + TRI3_E3_80] = build_urow(t, ubase, 0),
        ![ubase + TRI3_E3_81] = build_urow(t, ubase, 0),
        ![ubase + TRI3_E3_xx] = build_urow(t, ubase, 0),
        ![ubase + TRI3_Ed_xx] = build_urow(t, ubase, 0),
        ![ubase + TRI3_Ee_xx] = build_urow(t, ubase, 0),
        ![ubase + TRI3_xx_xx] = build_urow(t, ubase, 0),
        ![ubase + QUAD2_xx] = build_urow(t, ubase, QUAD3_xx_xx),
        ![ubase + QUAD2_F0] = build_urow(t, ubase, QUAD3_F0_xx),
        ![ubase + QUAD2_F4] = build_urow(t, ubase, QUAD3_F4_xx),
        ![ubase + QUAD3_xx_xx] = build_urow(t, ubase, QUAD4_xx_xx_xx),
        ![ubase + QUAD3_F0_xx] = build_urow(t, ubase, QUAD4_F0_xx_xx),
        ![ubase + QUAD3_F4_xx] = build_urow(t, ubase, QUAD4_F4_xx_xx),
        ![ubase + QUAD4_xx_xx_xx] = build_urow(t, ubase, 0),
        ![ubase + QUAD4_F0_xx_xx] = build_urow(t, ubase, 0),
        ![ubase + QUAD4_F4_xx_xx] = build_urow(t, ubase, 0)]

\* The prefixes of the Unicode spaces get states of their own (wc2.c:259-263).
SpacePrefixes(t, ubase) ==
    [t EXCEPT
        ![ubase + TRI2_E1][154] = ubase + TRI3_E1_9a,
        ![ubase + TRI2_E2][128] = ubase + TRI3_E2_80,
        ![ubase + TRI2_E2][129] = ubase + TRI3_E2_81,
        ![ubase + TRI2_E3][128] = ubase + TRI3_E3_80,
        ![ubase + TRI2_E3][129] = ubase + TRI3_E3_81]

\* "Mark Unicode spaces" with U+1680 marked in the row of the generic E1 prefix
UnicodeSpaces_wrongrow(t, ubase) ==
    [t EXCEPT
        ![ubase + DUO2_C2][133] = IF iswspace(133) THEN WASSPACE ELSE @,
        ![ubase + DUO2_C2][160] = IF iswspace(160) THEN WASSPACE ELSE @,
        ![ubase + TRI3_E1_xx][128] = IF iswspace(5760) THEN WASSPACE ELSE @,
        ![ubase + TRI3_E2_80] =
            [c \in Byte |->
                IF \E i \in 8192 .. 8203 : iswspace(i) /\ c = 128 + BitAnd(i, 111)
                THEN WASSPACE ELSE @[c]],
        ![ubase + TRI3_E2_80][168] = IF iswspace(8232) THEN WASSPACE ELSE @,
        ![ubase + TRI3_E2_80][169] = IF iswspace(8233) THEN WASSPACE ELSE @,
        ![ubase + TRI3_E2_80][175] = IF iswspace(8239) THEN WASSPACE ELSE @,
        ![ubase + TRI3_E2_81][159] = IF iswspace(8287) THEN WASSPACE ELSE @,
        ![ubase + TRI3_E3_80][128] = IF iswspace(12288) THEN WASSPACE ELSE @]

\* "Mark Unicode spaces" (wc2.c:284-303): each write happens if iswspace() says so.
UnicodeSpaces(t, ubase) ==
    [t EXCEPT
        ![ubase + DUO2_C2][133] = IF iswspace(133) THEN WASSPACE ELSE @,
        ![ubase + DUO2_C2][160] = IF iswspace(160) THEN WASSPACE ELSE @,
        ![ubase + TRI3_E1_9a][128] = IF iswspace(5760) THEN WASSPACE ELSE @,
        \* for (i=0x2000; i<0x200b+1; i++) ... [0x80 + (i&0x6F)]
        ![ubase + TRI3_E2_80] =
            [c \in Byte |->
                IF \E i \in 8192 .. 8203 : iswspace(i) /\ c = 128 + BitAnd(i, 111)
                THEN WASSPACE ELSE @[c]],
        ![ubase + TRI3_E2_80][168] = IF iswspace(8232) THEN WASSPACE ELSE @,
        ![ubase + TRI3_E2_80][169] = IF iswspace(8233) THEN WASSPACE ELSE @,
        ![ubase + TRI3_E2_80][175] = IF iswspace(8239) THEN WASSPACE ELSE @,
        ![ubase + TRI3_E2_81][159] = IF iswspace(8287) THEN WASSPACE ELSE @,
        ![ubase + TRI3_E3_80][128] = IF iswspace(12288) THEN WASSPACE ELSE @]

\* "Mark illegal sequences" with the target one state past ILLEGAL
IllegalRanges_offbyone(t, ubase) ==
    [t EXCEPT
        ![ubase + TRI2_E0] = MarkRange(@, 128, 160, ubase + ILLEGAL + 1),
        ![ubase + QUAD2_F0] = MarkRange(@, 128, 144, ubase + ILLEGAL + 1),
        ![ubase + QUAD2_F4] = MarkRange(@, 144, 192, ubase + ILLEGAL + 1),
        ![ubase + TRI2_ED] = MarkRange(@, 160, 192, ubase + ILLEGAL + 1)]

\* "Mark illegal sequences" without the surrogate range
IllegalRanges_nosurrogates(t, ubase) ==
    [t EXCEPT
        ![ubase + TRI2_E0] = MarkRange(@, 128, 160, ubase + ILLEGAL),
        ![ubase + QUAD2_F0] = MarkRange(@, 128, 144, ubase + ILLEGAL),
        ![ubase + QUAD2_F4] = MarkRange(@, 144, 192, ubase + ILLEGAL)]

\* "Mark illegal sequences" (wc2.c:306-327)
IllegalRanges(t, ubase) ==
    [t EXCEPT
        ![ubase + TRI2_E0] = MarkRange(@, 128, 160, ubase + ILLEGAL),
        ![ubase + QUAD2_F0] = MarkRange(@, 128, 144, ubase + ILLEGAL),
        ![ubase + QUAD2_F4] = MarkRange(@, 144, 192, ubase + ILLEGAL),
        ![ubase + TRI2_ED] = MarkRange(@, 160, 192, ubase + ILLEGAL)]

\* build_unicode with the ILLEGAL row filled after the rows that copy it
build_unicode_late(t, default_state, ubase) ==
    LET t1 == IllegalRanges(UnicodeSpaces(SpacePrefixes(UnicodeRows(t, ubase), ubase),
                                          ubase), ubase)
    IN  [t1 EXCEPT ![ubase + ILLEGAL] = build_basic(default_state, ubase)]

\* build_unicode(default_state, ubase) on the table t: the table after.
build_unicode(t, default_state, ubase) ==
    LET t1 == [t EXCEPT ![ubase + ILLEGAL] = build_basic(default_state, ubase)]
    IN  IllegalRanges(UnicodeSpaces(SpacePrefixes(UnicodeRows(t1, ubase), ubase),
                                    ubase), ubase)

\* The ASCII-mode rows with every non-space byte starting a word, also inside one
AsciiRow_noword(from_word) ==
    [c \in Byte |->
        IF c = 10 THEN NEWLINE
        ELSE IF isspace(c) THEN WASSPACE
        ELSE NEWWORD]

\* The ASCII-mode rows with the byte classified by its low seven bits
AsciiRow_masked(from_word) ==
    [c \in Byte |->
        IF c % 128 = 10 THEN NEWLINE
        ELSE IF isspace(c % 128) THEN WASSPACE
        ELSE IF from_word THEN WASWORD ELSE NEWWORD]

\* The ASCII-mode loop of compile_utf8_statemachine: the four rows it writes.
AsciiRow(from_word) ==
    [c \in Byte |->
        IF c = 10 THEN NEWLINE
        ELSE IF isspace(c) THEN WASSPACE
        ELSE IF from_word THEN WASWORD ELSE NEWWORD]

\* compile_utf8_statemachine with the NEWWORD row built like the rows of the
\* space states
compile_utf8_statemachine_newword(t, multibyte) ==
    IF multibyte THEN
        LET t1 == [t EXCEPT ![WASSPACE] = build_WASSPACE,
                            ![NEWLINE]  = build_WASSPACE,
                            ![WASWORD]  = build_WASWORD,
                            ![NEWWORD]  = build_WASSPACE]
            t2 == build_unicode(t1, NEWWORD, USPACE)
        IN  build_unicode(t2, WASWORD, UWORD)
    ELSE
        [t EXCEPT ![WASSPACE] = AsciiRow(FALSE),
                  ![NEWLINE]  = AsciiRow(FALSE),
                  ![NEWWORD]  = AsciiRow(TRUE),
                  ![WASWORD]  = AsciiRow(TRUE)]

\* compile_utf8_statemachine(multibyte) on the table t: the table after.
compile_utf8_statemachine(t, multibyte) ==
    IF multibyte THEN
        LET t1 == [t EXCEPT ![WASSPACE] = build_WASSPACE,
                            ![NEWLINE]  = build_WASSPACE,
                            ![WASWORD]  = build_WASWORD,
                            ![NEWWORD]  = build_WASWORD]
            t2 == build_unicode(t1, NEWWORD, USPACE)
        IN  build_unicode(t2, WASWORD, UWORD)
    ELSE
        [t EXCEPT ![WASSPACE] = AsciiRow(FALSE),
                  ![NEWLINE]  = AsciiRow(FALSE),
                  ![NEWWORD]  = AsciiRow(TRUE),
                  ![WASWORD]  = AsciiRow(TRUE)]

\* PSTATE(p): from an offset into table_p to the row number
PSTATE(p) == p \div (256 * SizeofVoidP)

\* compile_pointers with the row stride left out of the address
compile_pointers_unscaled(t) ==
    [i \in States |-> [j \in Byte |-> t[i][j] * SizeofVoidP]]

\* compile_pointers: table_p from table
compile_pointers(t) ==
    [i \in States |-> [j \in Byte |-> t[i][j] * 256 * SizeofVoidP]]

\* The globals before main runs: zero-initialised.
ZeroTable == [i \in States |-> [j \in Byte |-> 0]]

---------------------------------------------------------------------------
(* The chunk processors.                                                   *)

\* struct results
Results(l, w, c, b) ==
    [line_count |-> l, word_count |-> w, char_count |-> c, byte_count |-> b]

NoResults == Results(0, 0, 0, 0)

\* the sum with the byte count taken from the wrong field of b
AddResults_wrongfield(a, b) ==
    Results(a.line_count + b.line_count,
            a.word_count + b.word_count,
            a.char_count + b.char_count,
            a.byte_count + b.char_count)

\* the field-wise sum of parse_file ("Sum the results") and main
AddResults(a, b) ==
    Results(a.line_count + b.line_count, a.word_count + b.word_count,
            a.char_count + b.char_count, a.byte_count + b.byte_count)

\* counts[STATE_MAX] of a chunk processor: the four cells of the base states are
\* set to zero, the others are left as the stack had them (junk). A cell that
\* starts at zero cannot wrap within one chunk (at most BUFSIZE = 65536 bytes),
\* so the cells are plain naturals here.
InitCounts(junk) ==
    [s \in States |->
        IF s \in {NEWLINE, NEWWORD, WASSPACE, WASWORD} THEN 0 ELSE junk]

\* the results with counts[WASSPACE] left out of char_count
ChunkResults_nospace(counts, length) ==
    Results(counts[NEWLINE],
            counts[NEWWORD],
            counts[NEWLINE] + counts[WASWORD] + counts[NEWWORD],
            length)

\* "Return the results" of the three chunk processors
ChunkResults(counts, length) ==
    Results(counts[NEWLINE],
            counts[NEWWORD],
            counts[NEWLINE] + counts[WASSPACE] + counts[WASWORD] + counts[NEWWORD],
            length)

\* the inner loop of parse_chunk: for (i=0; i<length; i++)
RECURSIVE parse_chunk_loop(_, _, _, _, _, _)
parse_chunk_loop(t, b, i, length, state, counts) ==
    IF i < length THEN
        LET c == b[i + 1]
            next == t[state][c]
        IN  parse_chunk_loop(t, b, i + 1, length, next,
                             [counts EXCEPT ![next] = @ + 1])
    ELSE [state |-> state, counts |-> counts]

\* parse_chunk without "*inout_state = state": the caller keeps the inbound state
parse_chunk_unsaved(t, b, length, state, junk) ==
    LET end == parse_chunk_loop(t, b, 0, length, state, InitCounts(junk))
    IN  [results |-> ChunkResults(end.counts, length), state |-> state]

\* parse_chunk(buf, length, inout_state): the results and the state it writes back
parse_chunk(t, b, length, state, junk) ==
    LET end == parse_chunk_loop(t, b, 0, length, state, InitCounts(junk))
    IN  [results |-> ChunkResults(end.counts, length), state |-> end.state]

\* the inner loop of parse_chunk_p: while (buf < end), buf an offset into b
RECURSIVE parse_chunk_p_loop(_, _, _, _, _, _)
parse_chunk_p_loop(t, b, bufp, end, state, counts) ==
    IF bufp < end THEN
        LET c == b[bufp + 1]
            next == t[state][c]
        IN  parse_chunk_p_loop(t, b, bufp + 1, end, next,
                               [counts EXCEPT ![next] = @ + 1])
    ELSE [state |-> state, counts |-> counts]

parse_chunk_p(t, b, length, state, junk) ==
    LET end == parse_chunk_p_loop(t, b, 0, 0 + length, state, InitCounts(junk))
    IN  [results |-> ChunkResults(end.counts, length), state |-> end.state]

\* the inner loop of parse_chunk_pp: state is a pointer to a row of table_p
\* (an offset from table_p), state[c] the pointer stored in that row.
RECURSIVE parse_chunk_pp_loop(_, _, _, _, _, _)
parse_chunk_pp_loop(tp, b, bufp, end, state, counts) ==
    IF bufp < end THEN
        LET c == b[bufp + 1]
            next == tp[PSTATE(state)][c]
        IN  parse_chunk_pp_loop(tp, b, bufp + 1, end, next,
                [counts EXCEPT ![PSTATE(next)] = @ + 1])
    ELSE [state |-> state, counts |-> counts]

\* parse_chunk_pp with only its first, unscaled initialiser of state (wc2.c:437)
parse_chunk_pp_unscaled(tp, b, length, state, junk) ==
    LET start == state
        end == parse_chunk_pp_loop(tp, b, 0, 0 + length, start, InitCounts(junk))
    IN  [results |-> ChunkResults(end.counts, length), state |-> PSTATE(end.state)]

parse_chunk_pp(tp, b, length, state, junk) ==
    LET start == state * 256 * SizeofVoidP
        end == parse_chunk_pp_loop(tp, b, 0, 0 + length, start, InitCounts(junk))
    IN  [results |-> ChunkResults(end.counts, length), state |-> PSTATE(end.state)]

---------------------------------------------------------------------------
(* The bounds of the model and the inputs it is run on.                    *)

\* the longest buffer of the exhaustive part of the inputs
MaxLen == 2

\* The bytes the exhaustive inputs are made of: newline, space, a letter and
\* the lead byte E2.
Bytes == {10, 32, 97, 226}

RECURSIVE SeqsUpTo(_, _)
SeqsUpTo(S, n) ==
    IF n = 0 THEN {<< >>}
    ELSE LET shorter == SeqsUpTo(S, n - 1)
         IN  shorter \cup {Append(q, e) : q \in {r \in shorter : Len(r) = n - 1}, e \in S}

\* "hello world\n"
HelloWorld == <<104, 101, 108, 108, 111, 32, 119, 111, 114, 108, 100, 10>>

Scenarios ==
    { <<97, 32, 98>>,            \* "a b"
      <<192, 128>>,              \* C0 80: overlong NUL
      <<195, 169>>,              \* C3 A9: U+00E9
      <<194, 160>>,              \* C2 A0: U+00A0 NO-BREAK SPACE
      <<226, 130, 172>>,         \* E2 82 AC: U+20AC EURO SIGN
      <<225, 154, 128>>,         \* E1 9A 80: U+1680 OGHAM SPACE MARK
      <<224, 128, 128>>,         \* E0 80 80: overlong NUL
      <<237, 160, 128>>,         \* ED A0 80: the surrogate U+D800
      <<240, 159, 152, 128>>,    \* F0 9F 98 80: U+1F600
      <<244, 144, 128, 128>>,    \* F4 90 80 80: beyond U+10FFFF
      <<97, 226, 130, 172>>,     \* a, U+20AC
      <<97, 225, 154, 128, 98>>, \* a, U+1680, b
      <<128>>, <<160>>, <<255>> }

Inputs == SeqsUpTo(Bytes, MaxLen) \cup Scenarios

\* The locales the model is run in: what isspace() says of the bytes above 0x7F
\* and what iswspace() says of the code points build_unicode asks about.
UnicodeSpaceList ==
    {133, 160, 5760} \cup (8192 .. 8203) \cup {8232, 8233, 8239, 8287, 12288}

Locales ==
    { \* a UTF-8 locale of glibc: iswspace() leaves out the no-break spaces,
      \* U+0085 and U+200B
      [space |-> {}, wspace |-> UnicodeSpaceList \ {133, 160, 8199, 8203, 8239}],
      \* a Latin-1 locale whose isspace() knows the byte A0 (NBSP) and whose
      \* iswspace() knows the whole list
      [space |-> {160}, wspace |-> UnicodeSpaceList] }

\* what an uninitialised counts[] cell may hold
Junk == {0, 2147480000}

---------------------------------------------------------------------------
(* The run: main builds the tables, then a buffer is handed to the chunk   *)
(* processors piece by piece with the state carried from call to call and  *)
(* the results summed, as parse_file does.                                 *)

\* no call yet
NoCall == [made |-> FALSE, state |-> 0, from |-> 0, length |-> 0, x |-> NoResults]

Init ==
    /\ locale \in Locales
    /\ is_multibyte \in BOOLEAN
    /\ table = ZeroTable
    /\ table_p = [i \in States |-> [j \in Byte |-> NullP]]
    /\ pc = "start"
    /\ buf = << >>
    /\ pos = 0
    /\ inout_state = WASSPACE
    /\ x = NoResults
    /\ results = NoResults
    /\ last = NoCall
    /\ prev = NoCall
    /\ cfg = [file_count |-> 0, is_stdin |-> TRUE, is_pointer_arithmetic |-> 0]
    /\ argi = 1
    /\ totals = NoResults
    /\ printed = << >>
    /\ argv = IF is_multibyte THEN <<(<<"-", "m">>)>> ELSE << >>

\* main with compile_pointers() left out: table_p stays as it was
Compile_nopointers ==
    /\ pc = "start"
    /\ table' = compile_utf8_statemachine(table, is_multibyte)
    /\ pc' = "ready"
    /\ UNCHANGED <<locale, is_multibyte, table_p, buf, pos, inout_state, x, results,
                   last, prev>>
    /\ UNCHANGED mainvars

\* main: compile_utf8_statemachine(cfg.is_counting_chars); compile_pointers();
Compile ==
    /\ pc = "start"
    /\ table' = compile_utf8_statemachine(table, is_multibyte)
    /\ table_p' = compile_pointers(table')
    /\ pc' = "ready"
    /\ UNCHANGED <<locale, is_multibyte, buf, pos, inout_state, x, results, last, prev>>
    /\ UNCHANGED mainvars

\* parse_file's start with the state kept from the stream before (a static
\* state)
Start_carry(b) ==
    /\ pc = "ready"
    /\ buf' = b
    /\ pos' = 0
    /\ results' = NoResults
    /\ pc' = "chunks"
    /\ UNCHANGED <<locale, is_multibyte, table, table_p, inout_state, x, last, prev>>
    /\ UNCHANGED mainvars

\* parse_file's start on a stream holding the bytes b: results = {0,0,0,0}, state = 0
Start(b) ==
    /\ pc = "ready"
    /\ buf' = b
    /\ pos' = 0
    /\ inout_state' = 0
    /\ results' = NoResults
    /\ pc' = "chunks"
    /\ UNCHANGED <<locale, is_multibyte, table, table_p, x, last, prev>>
    /\ UNCHANGED mainvars

\* the bytes of the next chunk of n bytes
Chunk(n) == SubSeq(buf, pos + 1, pos + n)

\* what a call on the next n bytes leaves behind when it returns r: the state
\* written back through inout_state, x, and parse_file's sum
Returned(r, n) ==
    /\ inout_state' = r.state
    /\ x' = r.results
    /\ results' = AddResults(results, r.results)
    /\ pos' = pos + n
    /\ last' = [made |-> TRUE, state |-> inout_state, from |-> pos, length |-> n,
                x |-> r.results]
    /\ prev' = last
    /\ UNCHANGED <<locale, is_multibyte, table, table_p, pc, buf>>
    /\ UNCHANGED mainvars

\* x = parse_chunk(buf, count, &state) on the next n bytes
CallParseChunk(n) ==
    /\ pc = "chunks"
    /\ \E r \in {parse_chunk(table, Chunk(n), n, inout_state, junk) : junk \in Junk} :
          Returned(r, n)

\* x = parse_chunk_p(buf, count, &state) on the next n bytes
CallParseChunkP(n) ==
    /\ pc = "chunks"
    /\ \E r \in {parse_chunk_p(table, Chunk(n), n, inout_state, junk) : junk \in Junk} :
          Returned(r, n)

\* x = parse_chunk_pp(buf, count, &state) on the next n bytes
CallParseChunkPP(n) ==
    /\ pc = "chunks"
    /\ \E r \in {parse_chunk_pp(table_p, Chunk(n), n, inout_state, junk) : junk \in Junk} :
          Returned(r, n)

Next ==
    \/ Compile
    \/ \E b \in Inputs : Start(b)
    \/ \E n \in 0 .. (Len(buf) - pos) : CallParseChunk(n)
    \/ \E n \in 0 .. (Len(buf) - pos) : CallParseChunkP(n)
    \/ \E n \in 0 .. (Len(buf) - pos) : CallParseChunkPP(n)

Spec == Init /\ [][Next]_vars

---------------------------------------------------------------------------
(* main: the tables are built, then every file of the command line and,    *)
(* if asked for, stdin go through parse_file, which reads the stream       *)
(* BUFSIZE bytes at a time; each result is printed and added to totals.    *)

\* BUFSIZE of parse_file (65536 in the source), scaled down to the streams
\* of the model
BufSize == 2

\* the most files on a command line
MaxFiles == 2

\* the streams a file or stdin may hold: one ending inside a word, one ending
\* inside an incomplete multi-byte sequence, one of several chunks and lines
FileInputs == { <<97>>, <<97, 226>>, <<98, 10, 226, 130, 172>> }

\* what read_command_line leaves in cfg for n file names, with or without "-"
\* and with 0, 1 or 2 "-P"
Configs ==
    { [file_count |-> n, is_stdin |-> s, is_pointer_arithmetic |-> p] :
        n \in 0 .. MaxFiles, s \in BOOLEAN, p \in 0 .. 2 }

\* "If no files specified, then we do <stdin> instead"
read_command_line == {c \in Configs : c.file_count = 0 => c.is_stdin}

\* cfg.is_printing_totals as read_command_line sets it
is_printing_totals ==
    cfg.file_count > 1 \/ (cfg.file_count > 0 /\ cfg.is_stdin)

\* print_results(filename, results, cfg): the line, as the counts it is
\* printed from; stream is the bytes that were counted
print_results(filename, r, stream) ==
    [filename |-> filename, results |-> r, stream |-> stream]

\* a command line that leaves c in cfg: -m for multibyte mode, a -P for each
\* count of is_pointer_arithmetic, the file names, "-" for stdin next to files
ArgvOf(c, multibyte) ==
    (IF multibyte THEN <<(<<"-", "m">>)>> ELSE << >>)
    \o [k \in 1 .. c.is_pointer_arithmetic |-> <<"-", "P">>]
    \o [k \in 1 .. c.file_count |-> <<"f">>]
    \o (IF c.is_stdin /\ c.file_count > 0 THEN <<(<<"-">>)>> ELSE << >>)

MainInit ==
    /\ locale \in Locales
    /\ is_multibyte \in BOOLEAN
    /\ cfg \in read_command_line
    /\ table = ZeroTable
    /\ table_p = [s \in States |-> [j \in Byte |-> NullP]]
    /\ pc = "start"
    /\ buf = << >>
    /\ pos = 0
    /\ inout_state = WASSPACE
    /\ x = NoResults
    /\ results = NoResults
    /\ last = NoCall
    /\ prev = NoCall
    /\ argi = 1
    /\ totals = NoResults
    /\ printed = << >>
    /\ argv = ArgvOf(cfg, is_multibyte)

\* fp = fopen(filename, "rb") succeeds on a file holding b; parse_file starts
OpenFile(b) ==
    /\ argi <= cfg.file_count
    /\ Start(b)

\* fopen fails and the run is given up: perror(argv[i]); exit(1)
OpenFails_abort ==
    /\ pc = "ready"
    /\ argi <= cfg.file_count
    /\ pc' = "exit1"
    /\ printed' = Append(printed, print_results("perror", NoResults, << >>))
    /\ UNCHANGED <<locale, is_multibyte, table, table_p, buf, pos,
                   inout_state, x, results, last, prev, cfg, argi, totals, argv>>

\* fopen fails: perror(argv[i]); continue
OpenFails ==
    /\ pc = "ready"
    /\ argi <= cfg.file_count
    /\ argi' = argi + 1
    /\ printed' = Append(printed, print_results("perror", NoResults, << >>))
    /\ UNCHANGED <<locale, is_multibyte, table, table_p, pc, buf, pos,
                   inout_state, x, results, last, prev, cfg, totals, argv>>

\* after the files, if cfg.is_stdin: parse_file starts on stdin holding b
OpenStdin(b) ==
    /\ argi = cfg.file_count + 1
    /\ cfg.is_stdin
    /\ Start(b)

\* count = fread(buf, 1, BUFSIZE, fp)
fread == IF Len(buf) - pos < BufSize THEN Len(buf) - pos ELSE BufSize

\* one round of parse_file's loop with count > 0: the chunk processor that
\* cfg.is_pointer_arithmetic selects, then the sum
ReadChunk ==
    /\ pc = "chunks"
    /\ fread > 0
    /\ \E r \in { IF cfg.is_pointer_arithmetic > 1
                    THEN parse_chunk_pp(table_p, Chunk(fread), fread, inout_state, junk)
                  ELSE IF cfg.is_pointer_arithmetic > 0
                    THEN parse_chunk_p(table, Chunk(fread), fread, inout_state, junk)
                  ELSE parse_chunk(table, Chunk(fread), fread, inout_state, junk) :
                  junk \in Junk } :
          Returned(r, fread)

\* count <= 0: parse_file returns results; main prints them and adds them to
\* totals
EndOfFile ==
    /\ pc = "chunks"
    /\ fread <= 0
    /\ printed' = Append(printed,
                    print_results(IF argi <= cfg.file_count THEN "file" ELSE "stdin",
                                  results, buf))
    /\ totals' = AddResults(totals, results)
    /\ argi' = argi + 1
    /\ pc' = "ready"
    /\ UNCHANGED <<locale, is_multibyte, table, table_p, buf, pos, inout_state,
                   x, results, last, prev, cfg, argv>>

\* nothing is left to read: the totals line if there was more than one thing,
\* return 0
Exit ==
    /\ pc = "ready"
    /\ argi > cfg.file_count
    /\ cfg.is_stdin => argi > cfg.file_count + 1
    /\ printed' = IF is_printing_totals
                  THEN Append(printed, print_results("total", totals, << >>))
                  ELSE printed
    /\ pc' = "done"
    /\ UNCHANGED <<locale, is_multibyte, table, table_p, buf, pos, inout_state,
                   x, results, last, prev, cfg, argi, totals, argv>>

MainNext ==
    \/ Compile
    \/ \E b \in FileInputs : OpenFile(b)
    \/ OpenFails
    \/ \E b \in FileInputs : OpenStdin(b)
    \/ ReadChunk
    \/ EndOfFile
    \/ Exit

MainSpec == MainInit /\ [][MainNext]_vars

---------------------------------------------------------------------------
(* read_command_line: argv[1..] is a sequence of arguments, an argument a   *)
(* sequence of characters; "NUL" stands for the terminating '\0'.           *)

\* argv[i][k], k counted from 0 as in C
CharAt(arg, k) == IF k < Len(arg) THEN arg[k + 1] ELSE "NUL"

Digits == {"0", "1", "2", "3", "4", "5", "6", "7", "8", "9"}

isdigit(c) == c \in Digits

DigitValue(c) ==
    CASE c = "0" -> 0 [] c = "1" -> 1 [] c = "2" -> 2 [] c = "3" -> 3 [] c = "4" -> 4
      [] c = "5" -> 5 [] c = "6" -> 6 [] c = "7" -> 7 [] c = "8" -> 8 [] c = "9" -> 9

\* atoi(parm) for a parm that starts with a digit: the value of its leading
\* digits, acc being the value of the digits before parm[k]
RECURSIVE atoi_from(_, _, _)
atoi_from(parm, k, acc) ==
    IF isdigit(CharAt(parm, k))
    THEN atoi_from(parm, k + 1, acc * 10 + DigitValue(CharAt(parm, k)))
    ELSE acc

atoi(parm) == atoi_from(parm, 0, 0)

\* memset(&cfg, 0, sizeof(cfg))
ZeroConfig ==
    [file_count |-> 0, is_stdin |-> FALSE, is_counting_lines |-> 0,
     is_counting_words |-> 0, is_counting_bytes |-> 0, is_counting_chars |-> 0,
     is_printing_totals |-> FALSE, column_width |-> 0, is_pointer_arithmetic |-> 0]

\* read_command_line goes on with cfg c and argument index n / has called
\* perror(text) and exit(status)
Going(c, n) == [exit |-> -1, text |-> << >>, cfg |-> c, i |-> n]
Exited(status, text, c) == [exit |-> status, text |-> text, cfg |-> c, i |-> 0]

\* the name of option letter c as perror prints it: "-c"
OptionName(c) == <<"-", c>>

\* get_column_width for the small regular files of the model: seven digits
\* when stdin is read too (maxsize 1000000), one digit otherwise
get_column_width(is_stdin) == IF is_stdin THEN 7 ELSE 1

\* case 'c': -c after -m is an error
case_c(cf, n) ==
    IF cf.is_counting_chars # 0
    THEN Exited(1, OptionName("c"), cf)
    ELSE Going([cf EXCEPT !.is_counting_bytes = @ + 1], n)

\* case 'm' without the test of cfg.is_counting_bytes
case_m_unchecked(cf, n) ==
    Going([cf EXCEPT !.is_counting_chars = @ + 1], n)

\* case 'm': -m after -c is an error
case_m(cf, n) ==
    IF cf.is_counting_bytes # 0
    THEN Exited(1, OptionName("m"), cf)
    ELSE Going([cf EXCEPT !.is_counting_chars = @ + 1], n)

\* case 'W': the width is the rest of the argument or, if there is none, the
\* next argument; the letters after W are not looked at (j = maxj)
case_W(av, n, j, cf) ==
    LET attached == CharAt(av[n], j + 1) # "NUL"
        hasnext == n + 1 <= Len(av)
        isnull == ~attached /\ ~hasnext
        parm == IF attached THEN SubSeq(av[n], j + 2, Len(av[n]))
                ELSE IF hasnext THEN av[n + 1] ELSE << >>
        n2 == IF ~attached /\ hasnext THEN n + 1 ELSE n
    IN  IF isnull \/ ~isdigit(CharAt(parm, 0))
        THEN Exited(1, OptionName("W"), cf)
        ELSE Going([cf EXCEPT !.column_width = atoi(parm)], n2)

\* for (j=1; j<maxj; j++) switch (argv[i][j]): the letters of argument n from
\* the j-th on
RECURSIVE ScanOptions(_, _, _, _)
ScanOptions(av, n, j, cf) ==
    IF j >= Len(av[n]) THEN Going(cf, n)
    ELSE LET c == CharAt(av[n], j)
             r == CASE c = "l" -> Going([cf EXCEPT !.is_counting_lines = @ + 1], n)
                    [] c = "w" -> Going([cf EXCEPT !.is_counting_words = @ + 1], n)
                    [] c = "c" -> case_c(cf, n)
                    [] c = "m" -> case_m(cf, n)
                    [] c = "W" -> case_W(av, n, j, cf)
                    [] c = "P" -> Going([cf EXCEPT !.is_pointer_arithmetic = @ + 1], n)
                    [] OTHER   -> Exited(1, OptionName(c), cf)
         IN  IF r.exit >= 0 \/ c = "W" THEN r
             ELSE ScanOptions(av, n, j + 1, r.cfg)

\* for (i=1; i<argc; i++): the arguments from the n-th on
RECURSIVE ScanArgs(_, _, _)
ScanArgs(av, n, cf) ==
    IF n > Len(av) THEN Going(cf, n)
    ELSE LET arg == av[n]
         IN  IF CharAt(arg, 0) # "-"
             THEN ScanArgs(av, n + 1, [cf EXCEPT !.file_count = @ + 1])
             ELSE IF CharAt(arg, 1) = "NUL"
             THEN ScanArgs(av, n + 1, [cf EXCEPT !.is_stdin = TRUE])
             ELSE IF CharAt(arg, 1) = "-"
             THEN IF CharAt(arg, 2) = "NUL"
                  THEN Going([cf EXCEPT !.file_count = @ + (Len(av) - n)], Len(av) + 1)
                  ELSE IF arg = <<"-", "-", "v", "e", "r", "s", "i", "o", "n">>
                  THEN Exited(0, <<"version">>, cf)
                  ELSE IF arg = <<"-", "-", "h", "e", "l", "p">>
                  THEN Exited(0, <<"help">>, cf)
                  ELSE Exited(1, arg, cf)
             ELSE LET r == ScanOptions(av, n, 1, cf)
                  IN  IF r.exit >= 0 THEN r ELSE ScanArgs(av, r.i + 1, r.cfg)

\* what follows the loop: stdin if no files, -lwc if no options, the column
\* width, the totals line
Defaults(cf) ==
    LET c1 == IF cf.file_count = 0 THEN [cf EXCEPT !.is_stdin = TRUE] ELSE cf
        c2 == IF /\ c1.is_counting_lines = 0 /\ c1.is_counting_words = 0
                 /\ c1.is_counting_bytes = 0 /\ c1.is_counting_chars = 0
              THEN [c1 EXCEPT !.is_counting_lines = 1, !.is_counting_words = 1,
                              !.is_counting_bytes = 1]
              ELSE c1
        c3 == IF c2.column_width = 0
              THEN [c2 EXCEPT !.column_width =
                        IF c2.file_count > 0 THEN get_column_width(c2.is_stdin) ELSE 1]
              ELSE c2
    IN  [c3 EXCEPT !.is_printing_totals =
            c3.file_count > 1 \/ (c3.file_count > 0 /\ c3.is_stdin)]

\* read_command_line(argc, argv): the cfg it returns, or the exit it takes
read_command_line_argv(av) ==
    LET r == ScanArgs(av, 1, ZeroConfig)
    IN  IF r.exit >= 0 THEN r ELSE Going(Defaults(r.cfg), r.i)

---------------------------------------------------------------------------
(* main from its first statement: read_command_line on the arguments, then *)
(* the tables, then the loop over the files and stdin (CmdSpec).           *)

\* the longest command line made of Args
MaxArgs == 2

\* the arguments a command line is made of: the two options in either order,
\* alone and together in one argument, other options, stdin, a file name
Args ==
    { <<"-", "c">>, <<"-", "m">>, <<"-", "c", "m">>, <<"-", "m", "c">>,
      <<"-", "l", "w">>, <<"-", "P">>, <<"-">>, <<"f">> }

\* command lines with an option between or around the two, with -W, with an
\* unknown option, with the long options and with "--"
CmdScenarios ==
    { << <<"-", "c">>, <<"f">>, <<"-", "m">> >>,
      << <<"-", "m">>, <<"-", "P", "P">>, <<"f">>, <<"-", "c">> >>,
      << <<"-", "l", "m", "w", "c">> >>,
      << <<"-", "m", "m">>, <<"f">>, <<"f">> >>,
      << <<"-", "c", "c">> >>,
      << <<"-", "W", "3">>, <<"-", "m">>, <<"f">> >>,
      << <<"-", "W", "1", "2", "c">>, <<"-", "m">> >>,
      << <<"-", "c", "W">> >>,
      << <<"-", "W">>, <<"m">> >>,
      << <<"-", "x">>, <<"-", "c">>, <<"-", "m">> >>,
      << <<"-", "c">>, <<"-", "-", "h", "e", "l", "p">>, <<"-", "m">> >>,
      << <<"-", "-", "v", "e", "r", "s", "i", "o", "n">> >>,
      << <<"-", "-", "b", "y", "t", "e", "s">> >>,
      << <<"-", "m">>, <<"-", "-">>, <<"f">> >> }

CommandLines == SeqsUpTo(Args, MaxArgs) \cup CmdScenarios

\* what perror, or the text of --version and --help, puts on stderr
perror(s) == [filename |-> "perror", results |-> NoResults, stream |-> << >>, text |-> s]

CmdInit ==
    /\ locale \in Locales
    /\ argv \in CommandLines
    /\ is_multibyte = FALSE
    /\ cfg = ZeroConfig
    /\ table = ZeroTable
    /\ table_p = [s \in States |-> [j \in Byte |-> NullP]]
    /\ pc = "args"
    /\ buf = << >>
    /\ pos = 0
    /\ inout_state = WASSPACE
    /\ x = NoResults
    /\ results = NoResults
    /\ last = NoCall
    /\ prev = NoCall
    /\ argi = 1
    /\ totals = NoResults
    /\ printed = << >>

\* cfg = read_command_line(argc, argv): either it exits, or main goes on with
\* cfg and will hand cfg.is_counting_chars to compile_utf8_statemachine
ReadCommandLine ==
    /\ pc = "args"
    /\ LET r == read_command_line_argv(argv)
       IN  IF r.exit >= 0
           THEN /\ pc' = (IF r.exit = 0 THEN "exit0" ELSE "exit1")
                /\ printed' = Append(printed, perror(r.text))
                /\ UNCHANGED <<cfg, is_multibyte>>
           ELSE /\ pc' = "start"
                /\ cfg' = r.cfg
                /\ is_multibyte' = (r.cfg.is_counting_chars # 0)
                /\ UNCHANGED printed
    /\ UNCHANGED <<locale, table, table_p, buf, pos, inout_state, x, results,
                   last, prev, argi, totals, argv>>

CmdNext ==
    \/ ReadCommandLine
    \/ Compile
    \/ \E b \in FileInputs : OpenFile(b)
    \/ OpenFails
    \/ \E b \in FileInputs : OpenStdin(b)
    \/ ReadChunk
    \/ EndOfFile
    \/ Exit

CmdSpec == CmdInit /\ [][CmdNext]_vars

---------------------------------------------------------------------------

(* The claims.                                                             *)

BaseStates == {WASSPACE, NEWLINE, NEWWORD, WASWORD}

\* the two ILLEGAL states and the states inside a multi-byte sequence
IllegalStates == {USPACE + ILLEGAL, UWORD + ILLEGAL}
SubStates == (USPACE .. (STATE_MAX - 1)) \ IllegalStates

\* the base states a context is entered from
BaseOf(ubase) == IF ubase = USPACE THEN {WASSPACE, NEWLINE} ELSE {NEWWORD, WASWORD}

\* the rows of a context that build_basic fills: a sequence starts from these
StartRows(ubase) == BaseOf(ubase) \cup {ubase + ILLEGAL}

\* the bytes of buf processed so far
Processed == SubSeq(buf, 1, pos)

\* table[s][b] for every s of S and b of B
Step(S, B) == {table[s][b] : s \in S, b \in B}

(* UTF-8 as the Unicode standard defines it (table 3-7, well-formed UTF-8    *)
(* byte sequences): the reference the table is compared with.              *)
Cont == 128 .. 191

WellFormed ==
    { [n |-> 2, lead |-> 194 .. 223, second |-> Cont],
      [n |-> 3, lead |-> {224},      second |-> 160 .. 191],
      [n |-> 3, lead |-> 225 .. 236, second |-> Cont],
      [n |-> 3, lead |-> {237},      second |-> 128 .. 159],
      [n |-> 3, lead |-> 238 .. 239, second |-> Cont],
      [n |-> 4, lead |-> {240},      second |-> 144 .. 191],
      [n |-> 4, lead |-> 241 .. 243, second |-> Cont],
      [n |-> 4, lead |-> {244},      second |-> 128 .. 143] }

\* the length of the well-formed sequence that starts at b[i]; 0 if none does
ScalarLenAt(b, i) ==
    IF b[i] < 128 THEN 1
    ELSE LET fits == {c \in WellFormed :
                        /\ i + c.n - 1 <= Len(b)
                        /\ b[i] \in c.lead
                        /\ b[i + 1] \in c.second
                        /\ \A k \in 2 .. (c.n - 1) : b[i + k] \in Cont}
         IN  IF fits = {} THEN 0 ELSE (CHOOSE c \in fits : TRUE).n

\* the number of code points of b from b[i] on; -1 if b is not well-formed there
RECURSIVE CodePointsFrom(_, _)
CodePointsFrom(b, i) ==
    IF i > Len(b) THEN 0
    ELSE LET n == ScalarLenAt(b, i)
             rest == IF n = 0 THEN -1 ELSE CodePointsFrom(b, i + n)
         IN  IF rest < 0 THEN -1 ELSE rest + 1

CodePoints(b) == CodePointsFrom(b, 1)

\* b holds a multi-byte well-formed sequence somewhere
HasMultibyte(b) == \E i \in 1 .. Len(b) : ScalarLenAt(b, i) > 1

\* C1: chunking invariance. Whenever two consecutive calls have processed a
\* prefix and then a suffix with the state threaded through, one parse_chunk
\* call on prefix \o suffix from the same inbound state gives the same final
\* state and the same field-wise sum of results. The inbound state is whatever
\* the calls before left, so every split point of every input and every state
\* reached from WASSPACE is tried, in both table modes.
C1_ChunkingInvariance ==
    (pc = "chunks" /\ prev.made /\ last.made) =>
        \A junk \in Junk :
            LET whole == parse_chunk(table, SubSeq(buf, prev.from + 1, pos),
                                     prev.length + last.length, prev.state, junk)
            IN  /\ whole.state = inout_state
                /\ whole.results = AddResults(prev.x, last.x)

\* a, then E2 | 82 AC: the split falls inside the Euro sign, the inbound state
\* of the prefix call is NEWWORD
C1_Witness ==
    /\ is_multibyte
    /\ buf = <<97, 226, 130, 172>>
    /\ prev.made /\ prev.from = 1 /\ prev.length = 1 /\ prev.state = NEWWORD
    /\ last.made /\ last.length = 2 /\ last.state = UWORD + TRI2_E2
    /\ inout_state = WASWORD
    /\ AddResults(prev.x, last.x) = Results(0, 0, 1, 3)

\* C9: empty buffer. A call of any of the three chunk processors with length 0
\* returns all-zero results and leaves the carried state as it was, for every
\* inbound state of the table.
C9_EmptyBuffer ==
    /\ (last.made /\ last.length = 0) =>
            (x = NoResults /\ inout_state = last.state)
    /\ \A s \in States, junk \in Junk :
        /\ parse_chunk(table, << >>, 0, s, junk) = [results |-> NoResults, state |-> s]
        /\ parse_chunk_p(table, << >>, 0, s, junk) = [results |-> NoResults, state |-> s]
        /\ parse_chunk_pp(table_p, << >>, 0, s, junk) = [results |-> NoResults, state |-> s]

\* an empty call made in the middle of the Euro sign
C9_Witness ==
    /\ is_multibyte
    /\ last.made /\ last.length = 0 /\ last.from = 1
    /\ last.state = USPACE + TRI2_E2
    /\ inout_state = USPACE + TRI2_E2
    /\ x = NoResults
    /\ results = Results(0, 0, 0, 1)

\* C2: in multibyte mode every well-formed UTF-8 sequence, started from any base
\* state, passes only through sub-states that are not ILLEGAL and lands in a
\* base state exactly on its last byte; so for a buffer made of ASCII bytes
\* and well-formed sequences char_count is the number of code points. The
\* Euro sign alone gives lines 0, words 1, chars 1, bytes 3.
C2_OnTable ==
    \A c \in WellFormed :
        LET s1 == Step(BaseStates, c.lead)
            s2 == Step(s1, c.second)
            s3 == Step(s2, Cont)
            s4 == Step(s3, Cont)
        IN  /\ s1 \subseteq SubStates
            /\ c.n = 2 => s2 \subseteq BaseStates
            /\ c.n = 3 => (s2 \subseteq SubStates /\ s3 \subseteq BaseStates)
            /\ c.n = 4 => (s2 \subseteq SubStates /\ s3 \subseteq SubStates
                           /\ s4 \subseteq BaseStates)

C2_WellFormedUtf8 ==
    /\ (pc = "ready" /\ is_multibyte) => C2_OnTable
    /\ (pc = "chunks" /\ is_multibyte /\ CodePoints(Processed) >= 0) =>
            /\ results.char_count = CodePoints(Processed)
            /\ inout_state \in BaseStates
    /\ (pc = "chunks" /\ is_multibyte /\ buf = <<226, 130, 172>> /\ pos = 3) =>
            results = Results(0, 1, 1, 3)

C2_Witness ==
    /\ pc = "chunks" /\ is_multibyte
    /\ buf = <<226, 130, 172>> /\ pos = 3
    /\ results = Results(0, 1, 1, 3)
    /\ inout_state = NEWWORD

\* C3: in multibyte mode, in both contexts, the lead bytes C0, C1 and F5..FF go
\* to the context's ILLEGAL state at once; after the lead byte E0 a byte
\* 80..9F, after ED a byte A0..BF, after F0 a byte 80..8F and after F4 a byte
\* 90..BF go to ILLEGAL; and from ILLEGAL no continuation byte reaches a base
\* state, so the rest of such a sequence is never counted as a character.
C3_OnTable ==
    \A ubase \in {USPACE, UWORD} :
        /\ \A r \in StartRows(ubase) \cup (ubase .. (ubase + ILLEGAL)) :
             \A c \in {192, 193} \cup (245 .. 255) : table[r][c] = ubase + ILLEGAL
        /\ \A r \in StartRows(ubase) :
             /\ \A c \in 128 .. 159 : table[table[r][224]][c] = ubase + ILLEGAL
             /\ \A c \in 160 .. 191 : table[table[r][237]][c] = ubase + ILLEGAL
             /\ \A c \in 128 .. 143 : table[table[r][240]][c] = ubase + ILLEGAL
             /\ \A c \in 144 .. 191 : table[table[r][244]][c] = ubase + ILLEGAL
        /\ \A c \in Cont : table[ubase + ILLEGAL][c] = ubase + ILLEGAL

IllFormedScenarios ==
    {<<224, 128, 128>>, <<237, 160, 128>>, <<244, 144, 128, 128>>}

C3_IllegalEncodings ==
    /\ (pc = "ready" /\ is_multibyte) => C3_OnTable
    /\ (pc = "chunks" /\ is_multibyte /\ buf \in IllFormedScenarios) =>
            /\ results.char_count = 0
            /\ pos >= 2 => inout_state = USPACE + ILLEGAL

\* the surrogate U+D800, ED A0 80, processed to its end
C3_Witness ==
    /\ pc = "chunks" /\ is_multibyte
    /\ buf = <<237, 160, 128>> /\ pos = 3
    /\ inout_state = USPACE + ILLEGAL
    /\ results = Results(0, 0, 0, 3)

\* the maximal runs of non-white-space bytes of b, and its newlines
Runs(b) ==
    Cardinality({i \in 1 .. Len(b) : ~isspace(b[i]) /\ (i = 1 \/ isspace(b[i - 1]))})

Newlines(b) == Cardinality({i \in 1 .. Len(b) : b[i] = 10})

IsAscii(b) == \A i \in 1 .. Len(b) : b[i] < 128

\* C4: in ASCII mode, for a buffer of bytes 00..7F processed from WASSPACE,
\* word_count is the number of maximal runs of non-white-space bytes and
\* line_count the number of newlines (so k runs separated by single spaces and
\* no newline give k words and 0 lines); "hello world\n" gives lines 1,
\* words 2, chars 12, bytes 12.
C4_AsciiCounts ==
    /\ (pc = "chunks" /\ ~is_multibyte /\ IsAscii(buf)) =>
            results = Results(Newlines(Processed), Runs(Processed), pos, pos)
    /\ (pc # "start" /\ ~is_multibyte) =>
            \A junk \in Junk :
                parse_chunk(table, HelloWorld, Len(HelloWorld), WASSPACE, junk)
                    = [results |-> Results(1, 2, 12, 12), state |-> NEWLINE]

\* "a b": two runs separated by a single space
C4_Witness ==
    /\ pc = "chunks" /\ ~is_multibyte
    /\ buf = <<97, 32, 98>> /\ pos = 3
    /\ results = Results(0, 2, 3, 3)

\* C5, as amended: char_count <= byte_count for every input; in ASCII mode the
\* two are always equal, whatever the bytes; in multibyte mode they are equal
\* if and only if every byte is below 0x80.
C5_CharsVsBytes ==
    pc = "chunks" =>
        /\ results.char_count <= results.byte_count
        /\ ~is_multibyte => results.char_count = results.byte_count
        /\ is_multibyte =>
              (results.char_count = results.byte_count <=> IsAscii(Processed))

\* C5, as stated: equality if and only if the input holds no multi-byte UTF-8
\* sequence.
C5_Original ==
    pc = "chunks" =>
        /\ results.char_count <= results.byte_count
        /\ results.char_count = results.byte_count <=> ~HasMultibyte(Processed)

\* U+00E9 in multibyte mode: one character, two bytes
C5_Witness ==
    /\ pc = "chunks" /\ is_multibyte
    /\ buf = <<195, 169>> /\ pos = 2
    /\ results.char_count = 1 /\ results.byte_count = 2

\* C6, as amended: in multibyte mode the overlong sequence C0 80, processed from
\* the initial state, lands both bytes in the ILLEGAL state of the USPACE
\* context, which is not a character-boundary state: neither byte is counted
\* (char_count 0, word_count 0, line_count 0), and byte_count is 2.
C6_OverlongNul ==
    /\ (pc = "ready" /\ is_multibyte) =>
            /\ table[WASSPACE][192] = USPACE + ILLEGAL
            /\ table[USPACE + ILLEGAL][128] = USPACE + ILLEGAL
    /\ (pc = "chunks" /\ is_multibyte /\ buf = <<192, 128>>) =>
            /\ results = Results(0, 0, 0, pos)
            /\ pos >= 1 => inout_state = USPACE + ILLEGAL

\* C6, as stated: both bytes land in character-boundary states and count as
\* characters.
C6_Original ==
    (pc = "chunks" /\ is_multibyte /\ buf = <<192, 128>> /\ pos = 2) =>
        /\ inout_state \in BaseStates
        /\ results.char_count = 2
        /\ results.byte_count = 2

C6_Witness ==
    /\ pc = "chunks" /\ is_multibyte
    /\ buf = <<192, 128>> /\ pos = 2
    /\ last.made /\ last.length = 2
    /\ inout_state = USPACE + ILLEGAL
    /\ results = Results(0, 0, 0, 2)

\* the continuation bytes an intermediate state accepts
Accepted(id) ==
    CASE id = TRI2_E0  -> 160 .. 191
      [] id = TRI2_ED  -> 128 .. 159
      [] id = QUAD2_F0 -> 144 .. 191
      [] id = QUAD2_F4 -> 128 .. 143
      [] OTHER         -> Cont

\* the DUO2_*, TRI2_*, TRI3_*, QUAD2_*, QUAD3_* and QUAD4_* offsets
Intermediate == DUO2_xx .. (ILLEGAL - 1)

\* how the base automaton takes an ASCII byte in a context
AsciiTarget(ubase, b) ==
    IF b = 10 THEN NEWLINE
    ELSE IF isspace(b) THEN WASSPACE
    ELSE IF ubase = USPACE THEN NEWWORD ELSE WASWORD

\* C7, as amended: in multibyte mode every intermediate state sends every lead
\* byte C0..FF and every continuation byte outside its accepted range to the
\* ILLEGAL state of its context; an ASCII byte 00..7F does not go to ILLEGAL:
\* it ends the sequence and is taken as the base automaton takes it in that
\* context (newline to NEWLINE, white space to WASSPACE, anything else to
\* NEWWORD in the USPACE context and WASWORD in the UWORD context).
C7_OutOfRange ==
    /\ (pc = "ready" /\ is_multibyte) =>
         \A ubase \in {USPACE, UWORD}, id \in Intermediate :
            \A b \in Byte \ Accepted(id) :
                table[ubase + id][b] =
                    IF b >= 128 THEN ubase + ILLEGAL ELSE AsciiTarget(ubase, b)
    /\ (pc = "chunks" /\ is_multibyte /\ buf = <<226, 97>> /\ pos = 2) =>
            (inout_state = NEWWORD /\ results = Results(0, 1, 1, 2))

\* C7, as stated: every byte outside the accepted range, ASCII bytes included,
\* goes to ILLEGAL.
C7_Original ==
    (pc = "ready" /\ is_multibyte) =>
         \A ubase \in {USPACE, UWORD}, id \in Intermediate :
            \A b \in Byte \ Accepted(id) : table[ubase + id][b] = ubase + ILLEGAL

\* the lead byte E2 cut short by the letter a
C7_Witness ==
    /\ pc = "chunks" /\ is_multibyte
    /\ buf = <<226, 97>> /\ pos = 2
    /\ inout_state = NEWWORD
    /\ results = Results(0, 1, 1, 2)

\* the UTF-8 encoding of a code point of two or three bytes
Encode(cp) ==
    IF cp < 2048
    THEN <<192 + (cp \div 64), 128 + (cp % 64)>>
    ELSE <<224 + (cp \div 4096), 128 + ((cp \div 64) % 64), 128 + (cp % 64)>>

\* the state after the first k bytes of e, from state s
RECURSIVE StateAfter(_, _, _)
StateAfter(s, e, k) ==
    IF k = 0 THEN s ELSE table[StateAfter(s, e, k - 1)][e[k]]

\* the code points of the list the platform recognises
Recognised == {cp \in UnicodeSpaceList : iswspace(cp)}

\* the (state, byte) pairs on which a recognised space ends, in any context
SpaceEndings ==
    {<<StateAfter(s0, Encode(cp), Len(Encode(cp)) - 1), Encode(cp)[Len(Encode(cp))]>> :
        s0 \in BaseStates, cp \in Recognised}

\* C8, on the table: the encoding of every recognised code point of the list
\* stays inside the sub-states of its context until its last byte, which
\* lands in WASSPACE, from each base state; a byte 80..FF lands in WASSPACE
\* from no other state, and the states on the way to such an ending are
\* entered by no other byte sequence.
C8_OnTable ==
    /\ \A cp \in Recognised, s0 \in BaseStates :
         LET e == Encode(cp)
             n == Len(e)
         IN  /\ StateAfter(s0, e, n) = WASSPACE
             /\ \A k \in 1 .. (n - 1) :
                  StateAfter(s0, e, k) \in SubStates \ IllegalStates
    /\ {<<s, b>> \in States \X (128 .. 255) : table[s][b] = WASSPACE} = SpaceEndings
    /\ \A cp \in Recognised, s0 \in {WASSPACE, WASWORD} :
         LET e == Encode(cp)
         IN  \A k \in 1 .. (Len(e) - 1) :
               \A s \in States, b \in Byte :
                  table[s][b] = StateAfter(s0, e, k) =>
                     /\ b = e[k]
                     /\ IF k = 1
                        THEN s \in BaseStates \cup IllegalStates
                        ELSE s = StateAfter(s0, e, k - 1)

\* C8: in multibyte mode every code point of the Unicode-space list that the
\* platform recognises ends, on the last byte of its exact UTF-8 encoding, in
\* WASSPACE in both contexts, and no other multi-byte sequence does; so
\* E1 9A 80 alone gives words 0, chars 1, and between two letters it
\* separates two words; C2 A0 does the same where U+00A0 is recognised and is
\* a word character where it is not.
C8_UnicodeSpaces ==
    /\ (pc = "ready" /\ is_multibyte) => C8_OnTable
    /\ (pc = "chunks" /\ is_multibyte /\ pos = Len(buf)) =>
         /\ (buf = <<225, 154, 128>> /\ iswspace(5760)) =>
               (inout_state = WASSPACE /\ results = Results(0, 0, 1, 3))
         /\ (buf = <<97, 225, 154, 128, 98>> /\ iswspace(5760)) =>
               results = Results(0, 2, 3, 5)
         /\ buf = <<194, 160>> =>
               results = IF iswspace(160) THEN Results(0, 0, 1, 2)
                                          ELSE Results(0, 1, 1, 2)

\* U+1680 between two letters, fed in more than one chunk
C8_Witness ==
    /\ pc = "chunks" /\ is_multibyte
    /\ buf = <<97, 225, 154, 128, 98>> /\ pos = 5
    /\ iswspace(5760)
    /\ prev.made /\ last.made /\ last.from > 0
    /\ results = Results(0, 2, 3, 5)

\* C10, as amended: in ASCII mode every byte 80..FF that the locale's isspace()
\* does not class as white space is a word byte: from WASSPACE or NEWLINE it
\* goes to NEWWORD and from NEWWORD or WASWORD to WASWORD; a byte 80..FF that
\* isspace() does class as white space (A0 in a Latin-1 locale) goes to
\* WASSPACE from all four states; no such byte goes to NEWLINE, and each is
\* counted as one character.
C10_HighBytes ==
    /\ (pc = "ready" /\ ~is_multibyte) =>
         \A c \in 128 .. 255 :
            IF isspace(c)
            THEN \A s \in BaseStates : table[s][c] = WASSPACE
            ELSE /\ table[WASSPACE][c] = NEWWORD
                 /\ table[NEWLINE][c] = NEWWORD
                 /\ table[NEWWORD][c] = WASWORD
                 /\ table[WASWORD][c] = WASWORD
    /\ (pc = "chunks" /\ ~is_multibyte) =>
         /\ results.char_count = pos
         /\ (\A i \in 1 .. pos : buf[i] >= 128) => results.line_count = 0

\* C10, as stated: every byte 80..FF is a word byte, whatever the locale.
C10_Original ==
    (pc = "ready" /\ ~is_multibyte) =>
         \A c \in 128 .. 255 :
            /\ table[WASSPACE][c] = NEWWORD
            /\ table[NEWLINE][c] = NEWWORD
            /\ table[NEWWORD][c] = WASWORD
            /\ table[WASWORD][c] = WASWORD

\* the bytes C3 A9 in ASCII mode: one word of two characters
C10_Witness ==
    /\ pc = "chunks" /\ ~is_multibyte
    /\ buf = <<195, 169>> /\ pos = 2
    /\ inout_state = WASWORD
    /\ results = Results(0, 1, 2, 2)

\* the base state whose row a context's ILLEGAL row repeats
ContextBase(ubase) == IF ubase = USPACE THEN WASSPACE ELSE WASWORD

\* C11: in multibyte mode, from the ILLEGAL state of either context every
\* continuation byte 80..BF goes back to the ILLEGAL state of the same
\* context; a byte that leaves ILLEGAL is an ASCII byte or a lead byte, and
\* every byte other than a continuation byte is taken exactly as from the
\* context's base state (WASSPACE for USPACE, WASWORD for UWORD); so a run of
\* continuation bytes after an illegal byte is never counted.
C11_NoRecovery ==
    /\ (pc = "ready" /\ is_multibyte) =>
         \A ubase \in {USPACE, UWORD} :
            /\ \A b \in Cont : table[ubase + ILLEGAL][b] = ubase + ILLEGAL
            /\ \A b \in Byte :
                  table[ubase + ILLEGAL][b] # ubase + ILLEGAL => (b < 128 \/ b >= 192)
            /\ \A b \in Byte \ Cont :
                  table[ubase + ILLEGAL][b] = table[ContextBase(ubase)][b]
            /\ \A b \in 0 .. 127 : table[ubase + ILLEGAL][b] \in BaseStates
    /\ (pc = "chunks" /\ is_multibyte /\ buf = <<244, 144, 128, 128>>) =>
         /\ pos >= 2 => inout_state = USPACE + ILLEGAL
         /\ results = Results(0, 0, 0, pos)

\* F4 90 80 80 fed in two calls, the second entered in ILLEGAL
C11_Witness ==
    /\ pc = "chunks" /\ is_multibyte
    /\ buf = <<244, 144, 128, 128>> /\ pos = 4
    /\ last.made /\ last.state = USPACE + ILLEGAL /\ last.length >= 1
    /\ inout_state = USPACE + ILLEGAL
    /\ results = Results(0, 0, 0, 4)

\* the bytes of the last call
LastChunk == SubSeq(buf, last.from + 1, last.from + last.length)

\* C12: the three chunk processors are behaviourally identical. Once the
\* tables are built, PSTATE(table_p[i][j]) = table[i][j] for every state i
\* below STATE_MAX and every byte j, and for every inbound state below
\* STATE_MAX and every buffer parse_chunk, parse_chunk_p and parse_chunk_pp
\* return the same four counts and the same outbound state, whatever their
\* uninitialised counts hold; in a run, the call just made would have given
\* the same with either of the other two.
C12_SameProcessors ==
    /\ pc = "ready" =>
         \A i \in States, j \in Byte : PSTATE(table_p[i][j]) = table[i][j]
    /\ pc = "ready" =>
         \A s \in States, b \in Inputs :
            \A j1 \in Junk, j2 \in Junk, j3 \in Junk :
               /\ parse_chunk_p(table, b, Len(b), s, j2)
                     = parse_chunk(table, b, Len(b), s, j1)
               /\ parse_chunk_pp(table_p, b, Len(b), s, j3)
                     = parse_chunk(table, b, Len(b), s, j1)
    /\ (pc = "chunks" /\ last.made) =>
         \A junk \in Junk :
            LET r == [results |-> last.x, state |-> inout_state]
            IN  /\ parse_chunk(table, LastChunk, last.length, last.state, junk) = r
                /\ parse_chunk_p(table, LastChunk, last.length, last.state, junk) = r
                /\ parse_chunk_pp(table_p, LastChunk, last.length, last.state, junk) = r

\* the last two bytes of the Euro sign, entered in the middle of the sequence
C12_Witness ==
    /\ pc = "chunks" /\ is_multibyte
    /\ buf = <<226, 130, 172>> /\ pos = 3
    /\ last.made /\ last.from = 1 /\ last.length = 2
    /\ last.state = USPACE + TRI2_E2
    /\ table_p[last.state][130] = (USPACE + TRI3_E2_xx) * 256 * SizeofVoidP
    /\ inout_state = NEWWORD
    /\ last.x = Results(0, 1, 1, 2)

\* the four fields of struct results
Fields == {"line_count", "word_count", "char_count", "byte_count"}

\* the printed lines that are the result of a stream
StreamLines == {k \in 1 .. Len(printed) : printed[k].filename \in {"file", "stdin"}}

\* field f summed over the stream lines among the first k printed lines
RECURSIVE SumOfStreams(_, _)
SumOfStreams(f, k) ==
    IF k = 0 THEN 0
    ELSE SumOfStreams(f, k - 1) + (IF k \in StreamLines THEN printed[k].results[f] ELSE 0)

\* the bytes of the streams among the first k printed lines
RECURSIVE BytesOfStreams(_)
BytesOfStreams(k) ==
    IF k = 0 THEN 0
    ELSE BytesOfStreams(k - 1) + (IF k \in StreamLines THEN Len(printed[k].stream) ELSE 0)

\* field f summed over the chunks of b after the first from bytes, each chunk
\* counted on its own from the state the chunk before it left
RECURSIVE SumOfChunks(_, _, _, _)
SumOfChunks(f, b, from, state) ==
    IF from >= Len(b) THEN 0
    ELSE LET n == IF Len(b) - from < BufSize THEN Len(b) - from ELSE BufSize
             r == parse_chunk(table, SubSeq(b, from + 1, from + n), n, state, 0)
         IN  r.results[f] + SumOfChunks(f, b, from + n, r.state)

\* C13: the byte_count of a chunk is the length of its buffer; the result of a
\* stream is the field-wise sum of the results of its chunks, so its
\* byte_count is the number of bytes read; main's totals are the field-wise
\* sum of the results of all streams processed, and the totals line prints
\* them.
C13_Sums ==
    /\ last.made => (last.x.byte_count = last.length /\ x = last.x)
    /\ pc = "chunks" =>
         /\ results.byte_count = pos
         /\ \A f \in Fields : results[f] = SumOfChunks(f, Processed, 0, WASSPACE)
    /\ \A k \in StreamLines :
         /\ printed[k].results.byte_count = Len(printed[k].stream)
         /\ \A f \in Fields :
               printed[k].results[f] = SumOfChunks(f, printed[k].stream, 0, WASSPACE)
    /\ \A f \in Fields : totals[f] = SumOfStreams(f, Len(printed))
    /\ totals.byte_count = BytesOfStreams(Len(printed))
    /\ (pc = "done" /\ is_printing_totals) =>
         printed[Len(printed)] = print_results("total", totals, << >>)

\* a file of three chunks and stdin, then the totals line
C13_Witness ==
    /\ pc = "done" /\ is_multibyte
    /\ Len(printed) = 3
    /\ printed[1] = print_results("file", Results(1, 2, 3, 5), <<98, 10, 226, 130, 172>>)
    /\ printed[2] = print_results("stdin", Results(0, 1, 1, 1), <<97>>)
    /\ printed[3] = print_results("total", Results(1, 3, 4, 6), << >>)
    /\ totals = Results(1, 3, 4, 6)

\* C14: table construction is idempotent and deterministic. In multibyte mode
\* a second run of compile_utf8_statemachine(1) on the table the first run
\* built, with the same locale, leaves every row below STATE_MAX as it was,
\* the Unicode-space and illegal-range overrides included, so both tables
\* give the same results and the same state for the same input.
C14_Idempotent ==
    (pc = "ready" /\ is_multibyte) =>
        LET again == compile_utf8_statemachine(table, TRUE)
        IN  /\ table = compile_utf8_statemachine(ZeroTable, TRUE)
            /\ \A s \in States : again[s] = table[s]
            /\ \A b \in Inputs :
                  parse_chunk(again, b, Len(b), WASSPACE, 0)
                     = parse_chunk(table, b, Len(b), WASSPACE, 0)

\* the first build is there, with its overrides, and the second has them too
C14_Witness ==
    /\ pc = "ready" /\ is_multibyte
    /\ table[USPACE + TRI3_E1_9a][128] = WASSPACE
    /\ table[UWORD + TRI2_ED][160] = UWORD + ILLEGAL
    /\ compile_utf8_statemachine(table, TRUE)[USPACE + TRI3_E1_9a][128] = WASSPACE
    /\ compile_utf8_statemachine(table, TRUE)[UWORD + TRI2_ED][160] = UWORD + ILLEGAL
    /\ compile_utf8_statemachine(table, TRUE)[UWORD + TRI2_ED][97] = WASWORD

\* the states a run from s over any bytes can be in
RECURSIVE Closure(_)
Closure(S) ==
    LET N == S \cup Step(S, Byte)
    IN  IF N = S THEN S ELSE Closure(N)

Reachable == Closure({WASSPACE})

\* C15: in both table modes, from every reachable state (every partial-sequence
\* state and both ILLEGAL states in multibyte mode), a transition lands in
\* NEWLINE if and only if the byte is 0A; so the line_count of a chunk is the
\* number of 0A bytes in it, also when a newline cuts an incomplete
\* multi-byte sequence short.
C15_Newlines ==
    /\ pc = "ready" =>
         /\ Reachable = IF is_multibyte THEN States ELSE BaseStates
         /\ \A s \in Reachable, b \in Byte : table[s][b] = NEWLINE <=> b = 10
    /\ (pc = "chunks" /\ last.made) =>
         /\ last.x.line_count = Newlines(LastChunk)
         /\ results.line_count = Newlines(Processed)

\* a newline right after the lead byte E2
C15_Witness ==
    /\ pc = "chunks" /\ is_multibyte
    /\ buf = <<226, 10>> /\ pos = 2
    /\ last.made /\ last.state = USPACE + TRI2_E2 /\ last.length = 1
    /\ inout_state = NEWLINE
    /\ results = Results(1, 0, 1, 2)

\* the states of a context's block, its ILLEGAL state included
Block(ubase) == ubase .. (ubase + ILLEGAL)

\* the character of b that starts at b[i] is white space: an ASCII white-space
\* byte or the encoding of a Unicode space the platform recognises
IsSpaceAt(b, i) ==
    IF b[i] < 128 THEN isspace(b[i])
    ELSE \E cp \in Recognised :
            /\ i + Len(Encode(cp)) - 1 <= Len(b)
            /\ SubSeq(b, i, i + Len(Encode(cp)) - 1) = Encode(cp)

\* the maximal runs of non-space characters of a well-formed b from b[i] on,
\* inword telling whether the character before was part of a word
RECURSIVE WordsFrom(_, _, _)
WordsFrom(b, i, inword) ==
    IF i > Len(b) THEN 0
    ELSE LET sp == IsSpaceAt(b, i)
         IN  (IF ~sp /\ ~inword THEN 1 ELSE 0)
                + WordsFrom(b, i + ScalarLenAt(b, i), ~sp)

\* C16: the word context is remembered through a multi-byte sequence. In
\* multibyte mode a byte 80..FF consumed in WASSPACE or NEWLINE enters only the
\* USPACE block and one consumed in NEWWORD or WASWORD only the UWORD block; no
\* transition goes from one block to the other; a sequence that completes
\* without being a recognised space completes in NEWWORD from the USPACE
\* block and in WASWORD from the UWORD block. So a maximal run of non-space
\* characters counts as one word wherever the chunks are cut.
C16_WordContext ==
    /\ (pc = "ready" /\ is_multibyte) =>
         /\ \A b \in 128 .. 255 :
               /\ table[WASSPACE][b] \in Block(USPACE)
               /\ table[NEWLINE][b] \in Block(USPACE)
               /\ table[NEWWORD][b] \in Block(UWORD)
               /\ table[WASWORD][b] \in Block(UWORD)
         /\ \A ubase \in {USPACE, UWORD} :
               \A s \in Block(ubase), b \in Byte :
                  /\ table[s][b] \in Block(ubase) \cup BaseStates
                  /\ (b >= 128 /\ table[s][b] \in BaseStates) =>
                        table[s][b] = IF <<s, b>> \in SpaceEndings THEN WASSPACE
                                      ELSE IF ubase = USPACE THEN NEWWORD
                                      ELSE WASWORD
    /\ (pc = "chunks" /\ is_multibyte /\ CodePoints(Processed) >= 0) =>
         results.word_count = WordsFrom(Processed, 1, FALSE)

\* a and the Euro sign, cut between 82 and AC: one word
C16_Witness ==
    /\ pc = "chunks" /\ is_multibyte
    /\ buf = <<97, 226, 130, 172>> /\ pos = 4
    /\ last.made /\ last.from = 3 /\ last.state = UWORD + TRI3_E2_xx
    /\ inout_state = WASWORD
    /\ results = Results(0, 1, 2, 4)

\* C17: state closure. Once the table is built, every row below STATE_MAX is
\* defined for all 256 bytes and every entry of it is below STATE_MAX (so is
\* the row every entry of table_p points to); hence, from WASSPACE, the
\* carried state after any bytes and any chunking is below STATE_MAX and
\* indexes counts[] in bounds; in ASCII mode the four base rows lead only to
\* base states and the carried state is always one of them.
C17_StateClosure ==
    /\ pc = "ready" =>
         /\ DOMAIN table = States
         /\ \A s \in States :
               /\ DOMAIN table[s] = Byte
               /\ \A b \in Byte :
                     /\ table[s][b] \in States
                     /\ PSTATE(table_p[s][b]) \in States
         /\ ~is_multibyte =>
               \A s \in BaseStates, b \in Byte : table[s][b] \in BaseStates
    /\ pc = "chunks" =>
         /\ inout_state \in States
         /\ inout_state \in DOMAIN InitCounts(0)
         /\ ~is_multibyte => inout_state \in BaseStates
         /\ last.made => last.state \in States

\* a chunk ends two bytes into the Euro sign, inside a word
C17_Witness ==
    /\ pc = "chunks" /\ is_multibyte
    /\ buf = <<97, 226, 130, 172>> /\ pos = 3
    /\ last.made
    /\ inout_state = UWORD + TRI3_E2_xx
    /\ inout_state < STATE_MAX
    /\ results = Results(0, 1, 1, 3)

\* C18: every stream starts from WASSPACE however the stream before it ended.
\* The carried state is threaded only through the chunks of one parse_file
\* call: what has been counted of the current stream, and the result printed
\* for every stream, is what the bytes of that stream alone give from
\* WASSPACE, also after a stream that ended inside a word or inside an
\* incomplete multi-byte sequence.
C18_FreshState ==
    /\ pc = "chunks" =>
         LET alone == parse_chunk(table, Processed, pos, WASSPACE, 0)
         IN  /\ pos = 0 => inout_state = WASSPACE
             /\ inout_state = alone.state
             /\ results = alone.results
    /\ \A k \in StreamLines :
         LET b == printed[k].stream
         IN  printed[k].results = parse_chunk(table, b, Len(b), WASSPACE, 0).results

\* a file ending after the lead byte E2 inside a word, then stdin starting with
\* a letter, which starts a new word
C18_Witness ==
    /\ is_multibyte
    /\ Len(printed) >= 2
    /\ printed[1] = print_results("file", Results(0, 1, 1, 2), <<97, 226>>)
    /\ printed[2] = print_results("stdin", Results(0, 1, 1, 1), <<97>>)

\* both tables are as main's two calls build them from the zeroed globals
Built ==
    /\ table = compile_utf8_statemachine(ZeroTable, is_multibyte)
    /\ table_p = compile_pointers(table)

\* C19: table and table_p are completely built before the first byte of any
\* input is read (nothing is read while pc is "start", and when main turns
\* to its first stream both tables are what the build gives), and they
\* are never written afterwards: no step of parse_file, of a chunk processor
\* or of main's loop changes them; the steps of a chunk processor change
\* only the carried state and the results.
C19_TableFrozen ==
    /\ []((pc = "ready" /\ argi = 1) => Built)
    /\ [](pc = "start" => (buf = << >> /\ pos = 0 /\ printed = << >>))
    /\ [][pc # "start" => (table' = table /\ table_p' = table_p)]_vars
    /\ [][pc = "chunks" /\ pc' = "chunks" =>
            UNCHANGED <<table, table_p, buf, cfg, argi, totals, printed>>]_vars

\* two streams read with the pointer variant of the chunk processor; the
\* tables are still the ones built
C19_Witness ==
    /\ pc = "done" /\ is_multibyte
    /\ cfg.is_pointer_arithmetic = 2
    /\ Cardinality(StreamLines) = 2
    /\ pos = 5 /\ last.made
    /\ table[UWORD + TRI2_ED][160] = UWORD + ILLEGAL
    /\ table_p[WASSPACE][97] = NEWWORD * 256 * SizeofVoidP
    /\ Built

\* how many bytes of b had been read when the run from WASSPACE was last
\* outside the partial-sequence states
LastOutside(b) ==
    LET K == {k \in 0 .. Len(b) : StateAfter(WASSPACE, b, k) \notin SubStates}
    IN  CHOOSE k \in K : \A m \in K : m <= k

\* C20: in multibyte mode a multi-byte sequence that is incomplete where the
\* bytes end, or that an ASCII byte cuts short, adds nothing to char_count or
\* word_count (nor to line_count): the counts are those of the bytes before
\* it. The ASCII byte that cuts it short is counted alone, as from the base
\* state of the context: after white space it starts a new word, inside a
\* word it continues the word.
C20_Incomplete ==
    /\ (pc = "ready" /\ is_multibyte) =>
         /\ \A ubase \in {USPACE, UWORD}, id \in Intermediate, a \in 0 .. 127 :
               table[ubase + id][a] = table[ContextBase(ubase)][a]
         /\ \A junk \in Junk :
               /\ parse_chunk(table, <<97, 226, 98>>, 3, WASSPACE, junk)
                     = [results |-> Results(0, 1, 2, 3), state |-> WASWORD]
               /\ parse_chunk(table, <<32, 240, 159, 98>>, 4, WASSPACE, junk)
                     = [results |-> Results(0, 1, 2, 4), state |-> NEWWORD]
               /\ parse_chunk(table, <<97, 240, 159, 152>>, 4, WASSPACE, junk)
                     = [results |-> Results(0, 1, 1, 4), state |-> UWORD + QUAD4_F0_xx_xx]
    /\ (pc = "chunks" /\ is_multibyte /\ inout_state \in SubStates) =>
         LET before == parse_chunk(table, Processed, LastOutside(Processed), WASSPACE, 0)
         IN  results = [before.results EXCEPT !.byte_count = pos]
    /\ (pc = "chunks" /\ is_multibyte /\ last.made /\ last.length = 1
          /\ last.state \in SubStates /\ LastChunk[1] < 128) =>
         LET base == IF last.state < UWORD THEN WASSPACE ELSE WASWORD
         IN  /\ inout_state = table[base][LastChunk[1]]
             /\ last.x = parse_chunk(table, LastChunk, 1, base, 0).results
             /\ last.x.char_count = 1

\* the bytes end after the lead byte E2, inside a word: only the letter counts
C20_Witness ==
    /\ pc = "chunks" /\ is_multibyte
    /\ buf = <<97, 226>> /\ pos = 2
    /\ last.made
    /\ inout_state = UWORD + TRI2_E2
    /\ results = Results(0, 1, 1, 2)


\* the printed lines that report a file that could not be opened
ErrorLines == {k \in 1 .. Len(printed) : printed[k].filename = "perror"}

\* the printed lines that are the result of a file, of stdin
FileLines == {k \in 1 .. Len(printed) : printed[k].filename = "file"}
StdinLines == {k \in 1 .. Len(printed) : printed[k].filename = "stdin"}

\* main is at a file of the command line and the step does not start
\* parse_file on it: fopen returned NULL
FailedOpen == pc = "ready" /\ argi <= cfg.file_count /\ pc' # "chunks"

\* C21: a file of the command line that cannot be opened is skipped. The step
\* of main that finds fopen failed writes one error line and no result line,
\* leaves totals (and the tables) as they were, and goes on to the next
\* argument; from there the run can always take a further step until it has
\* returned. Every file of the command line is answered by exactly one line,
\* a result or an error; the totals are the sum of the result lines alone;
\* and when main returns 0 stdin was read if and only if cfg.is_stdin, after
\* all the files, and the totals line is there if cfg.is_printing_totals,
\* whatever number of files failed to open.
C21_UnopenableSkipped ==
    /\ [][FailedOpen =>
            /\ printed' = Append(printed, print_results("perror", NoResults, << >>))
            /\ totals' = totals
            /\ argi' = argi + 1
            /\ pc' = "ready"
            /\ UNCHANGED <<table, table_p, cfg, argv>>]_vars
    /\ [](pc \in {"ready", "chunks"} => ENABLED MainNext)
    /\ [](pc \in {"ready", "chunks", "done"} =>
            /\ Cardinality(FileLines) + Cardinality(ErrorLines)
                 = (IF argi - 1 < cfg.file_count THEN argi - 1 ELSE cfg.file_count)
            /\ \A f \in Fields : totals[f] = SumOfStreams(f, Len(printed))
            /\ \A k \in ErrorLines : printed[k].results = NoResults)
    /\ [](pc = "done" =>
            /\ Cardinality(FileLines) + Cardinality(ErrorLines) = cfg.file_count
            /\ Cardinality(StdinLines) = (IF cfg.is_stdin THEN 1 ELSE 0)
            /\ \A k \in StdinLines : \A j \in FileLines \cup ErrorLines : j < k
            /\ is_printing_totals =>
                 printed[Len(printed)] = print_results("total", totals, << >>))

\* the first of two files cannot be opened, the second and stdin are counted,
\* and main returns with the totals of those two
C21_Witness ==
    /\ pc = "done"
    /\ cfg.file_count = 2 /\ cfg.is_stdin
    /\ Len(printed) = 4
    /\ printed[1] = print_results("perror", NoResults, << >>)
    /\ printed[2].filename = "file" /\ printed[2].stream = <<97, 226>>
    /\ printed[3].filename = "stdin" /\ printed[3].stream = <<97>>
    /\ printed[4] = print_results("total", totals, << >>)
    /\ totals.byte_count = 3


\* the states main exit()s in from read_command_line
ExitStates == {"exit0", "exit1"}

\* the command line holds nothing but file names, "-" and arguments made of
\* the option letters l, w, c, m and P
PlainOptions ==
    \A n \in 1 .. Len(argv) :
        argv[n][1] = "-" =>
            \A k \in 2 .. Len(argv[n]) : argv[n][k] \in {"l", "w", "c", "m", "P"}

\* the option letters of the first n arguments, in their order
RECURSIVE OptionLetters(_)
OptionLetters(n) ==
    IF n = 0 THEN << >>
    ELSE OptionLetters(n - 1)
         \o (IF argv[n][1] = "-" THEN SubSeq(argv[n], 2, Len(argv[n])) ELSE << >>)

\* where letter c is first given among the letters q, 0 if it is not
FirstGiven(q, c) ==
    IF \E k \in 1 .. Len(q) : q[k] = c
    THEN CHOOSE k \in 1 .. Len(q) : q[k] = c /\ \A j \in 1 .. k - 1 : q[j] # c
    ELSE 0

\* C22: -c and -m are mutually exclusive, in either order, in one argument or
\* in two. On a command line of file names, "-" and the options l, w, c, m, P
\* that gives both c and m, read_command_line reports the one whose first
\* occurrence comes second (perror "-c" or "-m") and exits with status 1; on
\* one that does not give both it returns, and multibyte mode is selected if
\* and only if m is among the options. On every command line: an exit from
\* read_command_line happens with both tables still zeroed, no input read and
\* nothing else printed, and is final; a returned cfg never has both
\* is_counting_bytes and is_counting_chars set by options; and the tables
\* main then builds are those of compile_utf8_statemachine(is_multibyte) with
\* is_multibyte true exactly when cfg.is_counting_chars is not zero, that is,
\* when a -m was accepted.
C22_BytesOrChars ==
    /\ [](pc # "args" =>
            /\ PlainOptions =>
                 LET q == OptionLetters(Len(argv))
                     c == FirstGiven(q, "c")
                     m == FirstGiven(q, "m")
                 IN  IF c > 0 /\ m > 0
                     THEN /\ pc = "exit1"
                          /\ printed = <<perror(<<"-", IF c > m THEN "c" ELSE "m">>)>>
                     ELSE /\ pc \notin ExitStates
                          /\ is_multibyte <=> m > 0
                          /\ pc # "start" =>
                               table[WASSPACE][226] =
                                   IF m > 0 THEN USPACE + TRI2_E2 ELSE NEWWORD
            /\ pc \in ExitStates =>
                 /\ table = ZeroTable
                 /\ \A s \in States : \A j \in Byte : table_p[s][j] = NullP
                 /\ buf = << >> /\ pos = 0 /\ ~last.made
                 /\ results = NoResults /\ totals = NoResults
                 /\ Len(printed) = 1 /\ printed[1].filename = "perror"
            /\ pc \notin ExitStates =>
                 /\ is_multibyte <=> cfg.is_counting_chars > 0
                 /\ cfg.is_counting_chars = 0 \/ cfg.is_counting_bytes = 0
                 /\ (pc = "ready" /\ argi = 1) => Built)
    /\ [][pc \notin ExitStates]_vars
    /\ [][pc = "args" =>
            UNCHANGED <<table, table_p, buf, pos, inout_state, results, totals, argi>>]_vars

\* -c then -m in two arguments: perror("-m"), exit(1), the table still zeroed
C22_Witness ==
    /\ argv = << <<"-", "c">>, <<"-", "m">> >>
    /\ pc = "exit1"
    /\ printed = <<perror(<<"-", "m">>)>>
    /\ table = ZeroTable

\* -m then -c in one argument, with a file: perror("-c"), exit(1)
C22_WitnessOneArgument ==
    /\ argv = << <<"-", "m", "c">>, <<"f">> >>
    /\ pc = "exit1"
    /\ printed = <<perror(<<"-", "c">>)>>

\* -m alone is accepted and the multibyte table is built
C22_WitnessAccepted ==
    /\ argv = << <<"-", "m">>, <<"f">> >>
    /\ pc = "done"
    /\ is_multibyte
    /\ table[WASSPACE][226] = USPACE + TRI2_E2

=============================================================================
